---- MODULE Spec2Model ----
(***************************************************************************)
(* A model of github.com/lonebits/callable: one Callable (callable.go)     *)
(* serving HTTP requests, and the error taxonomy of response.go.           *)
(*                                                                         *)
(* Go values are modelled as follows.                                      *)
(*   - A header that is absent reads as "" (http.Header.Get).              *)
(*   - An Authorization header is the sequence of its words and blanks, a  *)
(*     Content-Type header is its media type and its parameters, a body is *)
(*     the JSON value it holds.                                            *)
(*   - An error is a record: a callError, an opaque error (with what       *)
(*     errors.Is answers for the two context errors), or an error wrapping *)
(*     a callError.                                                        *)
(*   - A ResponseWriter is its header map, the WriteHeader calls made on   *)
(*     it (explicit or implied by the first Write) and the values written  *)
(*     to its body.  Writes to the transport are taken to succeed.         *)
(***************************************************************************)
EXTENDS Integers, Sequences, FiniteSets, TLC

\* ------------------------------------------------------------------ bounds
\* Requests the HTTP server may have in flight on the one Callable.
MaxInFlight == 2
\* StatusCode values tried beyond either end of the enumeration.
CodeSlack == 1

\* ------------------------------------------------- response.go: StatusCode
InvalidArgument == 0
FailedPrecondition == 1
OutOfRange == 2
Unauthenticated == 3
PermissionDenied == 4
NotFound == 5
Aborted == 6
AlreadyExists == 7
ResourceExhausted == 8
Cancelled == 9
DataLoss == 10
Unknown == 11
Internal == 12
NotImplemented == 13
Unavailable == 14
DeadlineExceeded == 15

\* The keys of the statuses map.
StatusCodes == InvalidArgument .. DeadlineExceeded

\* Any StatusCode (an int) a caller may pass.
AnyCodes == (InvalidArgument - CodeSlack) .. (DeadlineExceeded + CodeSlack)

St(status, code) == [status |-> status, code |-> code]

\* var statuses = map[StatusCode]struct{status string; code int}
statuses ==
  [c \in StatusCodes |->
     CASE c = InvalidArgument    -> St("INVALID_ARGUMENT", 400)
       [] c = FailedPrecondition -> St("FAILED_PRECONDITION", 400)
       [] c = OutOfRange         -> St("OUT_OF_RANGE", 400)
       [] c = Unauthenticated    -> St("UNAUTHENTICATED", 401)
       [] c = PermissionDenied   -> St("PERMISSION_DENIED", 403)
       [] c = NotFound           -> St("NOT_FOUND", 404)
       [] c = Aborted            -> St("ABORTED", 409)
       [] c = AlreadyExists      -> St("ALREADY_EXISTS", 409)
       [] c = ResourceExhausted  -> St("RESOURCE_EXHAUSTED", 429)
       [] c = Cancelled          -> St("CANCELLED", 499)
       [] c = DataLoss           -> St("DATA_LOSS", 500)
       [] c = Unknown            -> St("UNKNOWN", 500)
       [] c = Internal           -> St("INTERNAL", 500)
       [] c = NotImplemented     -> St("NOT_IMPLEMENTED", 501)
       [] c = Unavailable        -> St("UNAVAILABLE", 503)
       [] c = DeadlineExceeded   -> St("DEADLINE_EXCEEDED", 504)]

\* fmt.Sprintf(format, a...) for the formats the package uses: "%s" and a
\* text ending in "%v" take one argument, the other formats take none.
Sprintf(format, a) ==
  CASE format = "%s" -> a[1]
    [] format = "invalid ID token: %v" -> "invalid ID token: " \o a[1]
    [] format = "failed to decode payload: %v" -> "failed to decode payload: " \o a[1]
    [] OTHER -> format

\* A mutant of newError: no fallback to Internal, the zero value instead.
newErrorNoFallback(code, format, a) ==
  LET s == IF code \in DOMAIN statuses THEN statuses[code] ELSE St("", 0)
  IN  [kind |-> "callError", status |-> s.status, code |-> s.code,
       message |-> Sprintf(format, a)]

\* func newError(code StatusCode, format string, a ...interface{}) callError
newError(code, format, a) ==
  LET s == IF code \in DOMAIN statuses THEN statuses[code] ELSE statuses[Internal]
  IN  [kind |-> "callError", status |-> s.status, code |-> s.code,
       message |-> Sprintf(format, a)]

\* func Error(code StatusCode, format string, a ...interface{}) error
Error(code, format, a) == newError(code, format, a)

\* errors.New / fmt.Errorf without %w: an opaque error.
Opaque(text) == [kind |-> "opaque", text |-> text, canceled |-> FALSE, deadline |-> FALSE]

\* context.Canceled and context.DeadlineExceeded.
ContextCanceled ==
  [kind |-> "opaque", text |-> "context canceled", canceled |-> TRUE, deadline |-> FALSE]
ContextDeadlineExceeded ==
  [kind |-> "opaque", text |-> "context deadline exceeded", canceled |-> FALSE, deadline |-> TRUE]

\* fmt.Errorf(prefix + ": %w", inner) around a callError.
Wrap(prefix, inner) == [kind |-> "wrapped", text |-> prefix, inner |-> inner]

\* A mutant of callError.Error: the blank and the message are always added.
callErrorStringAlways(e) == e.status \o " " \o e.message

\* func (e callError) Error() string
callErrorString(e) ==
  IF e.message # "" THEN e.status \o " " \o e.message ELSE e.status

\* err.Error() of any error of the model.
ErrorString(e) ==
  CASE e.kind = "callError" -> callErrorString(e)
    [] e.kind = "wrapped"   -> e.text \o ": " \o callErrorString(e.inner)
    [] OTHER                -> e.text

\* errors.As(err, &cerr): the callError in err's chain, if any.
AsCallError(e) ==
  CASE e.kind = "callError" -> [ok |-> TRUE, cerr |-> e]
    [] e.kind = "wrapped"   -> [ok |-> TRUE, cerr |-> e.inner]
    [] OTHER                -> [ok |-> FALSE, cerr |-> e]

\* errors.Is(err, context.Canceled), errors.Is(err, context.DeadlineExceeded)
IsCanceled(e) == e.kind = "opaque" /\ e.canceled
IsDeadlineExceeded(e) == e.kind = "opaque" /\ e.deadline


\* The nil error.
NoError == [kind |-> "nil"]

\* ServeHTTP's classification of the error handlePost returned; the mutant
\* skips the two context checks.
classifyAllInternal(err) ==
  LET as == AsCallError(err)
  IN  IF as.ok THEN as.cerr ELSE newError(Internal, "%s", <<ErrorString(err)>>)

\* ServeHTTP, the error handlePost returned made a callError.
classify(err) ==
  LET as == AsCallError(err)
  IN  IF as.ok THEN as.cerr
      ELSE IF IsCanceled(err) THEN newError(Cancelled, "%s", <<ErrorString(err)>>)
      ELSE IF IsDeadlineExceeded(err)
           THEN newError(DeadlineExceeded, "%s", <<ErrorString(err)>>)
      ELSE newError(Internal, "%s", <<ErrorString(err)>>)

\* ------------------------------------------------------ http.ResponseWriter
HeaderNames ==
  {"Vary", "Access-Control-Allow-Origin", "Access-Control-Allow-Methods",
   "Access-Control-Allow-Headers", "Content-Type", "X-Content-Type-Options"}

\* A fresh ResponseWriter: no header, no status written, no body.
NewWriter == [header |-> [h \in HeaderNames |-> <<>>], status |-> <<>>, body |-> <<>>]

\* w.Header().Add(name, value)
HeaderAdd(w, name, value) ==
  [w EXCEPT !.header[name] = Append(@, value)]

\* w.Header().Set(name, value)
HeaderSet(w, name, value) ==
  [w EXCEPT !.header[name] = <<value>>]

\* w.WriteHeader(code)
WriteHeader(w, code) == [w EXCEPT !.status = Append(@, code)]

\* w.Write(data): the first write implies WriteHeader(200).
Write(w, data) ==
  LET w1 == IF w.status = <<>> THEN WriteHeader(w, 200) ELSE w
  IN  [w1 EXCEPT !.body = Append(@, data)]

\* The status the client receives: the first one written, 200 when the
\* handler returned having written none.
StatusOf(w) == IF w.status = <<>> THEN 200 ELSE w.status[1]

\* A mutant of callError.write: the status is left to the first Write.
callErrorWriteNoStatus(e, w) ==
  LET w1 == HeaderSet(w, "Content-Type", "application/json")
  IN  Write(w1, [error |-> [status |-> e.status, message |-> e.message]])

\* func (e callError) write(w http.ResponseWriter)
callErrorWrite(e, w) ==
  LET w1 == HeaderSet(w, "Content-Type", "application/json")
      w2 == WriteHeader(w1, e.code)
  IN  Write(w2, [error |-> [status |-> e.status, message |-> e.message]])

\* ----------------------------------------------------- handler results, JSON
\* The values a handler returns: a testResponse, nil, or a value
\* encoding/json cannot marshal (a channel, a NaN).
TestResponse(g) == [type |-> "testResponse", Greeting |-> g]
NilResult == [type |-> "nil", Greeting |-> ""]
Unmarshalable == [type |-> "chan", Greeting |-> ""]

\* The JSON value null.
JSONNull == [null |-> TRUE]

\* json.Marshal(dataResponse{result})
MarshalData(result) ==
  CASE result.type = "testResponse" ->
         [ok |-> TRUE, json |-> [data |-> [greeting |-> result.Greeting]]]
    [] result.type = "nil" -> [ok |-> TRUE, json |-> [data |-> JSONNull]]
    [] OTHER -> [ok |-> FALSE, json |-> [data |-> JSONNull]]


\* ------------------------------------------------------------ request values
\* strings.ToLower on the texts of the model.
ToLower(s) ==
  CASE s = "Application/JSON" -> "application/json"
    [] s = "Charset" -> "charset"
    [] s = "UTF-8" -> "utf-8"
    [] s = "UTF8" -> "utf8"
    [] s = "ISO-8859-1" -> "iso-8859-1"
    [] OTHER -> s

\* A Content-Type header value: its media type as sent and its parameters
\* in order; a parameter is well formed (name=value, the value a token or a
\* quoted string, which may be empty) or not.
Param(name, value) == [name |-> name, value |-> value, wellFormed |-> TRUE]
BadParam(name) == [name |-> name, value |-> "", wellFormed |-> FALSE]
CT(type, params) == [type |-> type, params |-> params]

\* The header is absent: Header.Get returns "".
NoContentType == CT("", <<>>)

ContentTypes ==
  { NoContentType,
    CT("application/json", <<>>),
    CT("Application/JSON", <<>>),
    CT("application/json", <<Param("charset", "utf-8")>>),
    CT("application/json", <<Param("Charset", "UTF-8")>>),
    CT("application/json", <<Param("charset", "utf8")>>),
    CT("application/json", <<Param("charset", "iso-8859-1")>>),
    CT("application/json", <<Param("charset", "")>>),
    CT("application/json", <<Param("boundary", "x")>>),
    CT("application/json", <<Param("charset", "utf-8"), Param("charset", "iso-8859-1")>>),
    CT("application/json", <<BadParam("charset")>>),
    CT("text/plain", <<>>),
    CT("text/plain", <<Param("charset", "iso-8859-1")>>),
    CT("text/plain", <<BadParam("charset")>>),
    CT("application/", <<>>) }

\* The media types of the model that are a token, or token "/" token.
WellFormedTypes == {"application/json", "text/plain"}

\* mime.ParseMediaType(ct): the media type lower-cased, the parameters as a
\* map with lower-cased names; an error when the media type or a parameter
\* is malformed or a parameter name occurs twice.
ParseMediaType(ct) ==
  LET mt == ToLower(ct.type)
      n  == Len(ct.params)
      names == [k \in 1..n |-> ToLower(ct.params[k].name)]
      bad == \/ mt \notin WellFormedTypes
             \/ \E k \in 1..n : ~ct.params[k].wellFormed
             \/ \E j, k \in 1..n : j < k /\ names[j] = names[k]
      mp == [nm \in {names[k] : k \in 1..n} |->
               (CHOOSE k \in 1..n : names[k] = nm) ]
  IN  [err |-> bad,
       mt  |-> IF mt \in WellFormedTypes THEN mt ELSE "",
       mp  |-> IF bad THEN << >> ELSE [nm \in DOMAIN mp |-> ct.params[mp[nm]].value]]

\* mp[key] of a Go map: the zero value "" when the key is absent.
MapGet(mp, key) == IF key \in DOMAIN mp THEN mp[key] ELSE ""

\* handlePost, the Content-Type checks: the error returned, or NoError.
checkContentType(ct) ==
  IF ct = NoContentType THEN Error(InvalidArgument, "missing content type", <<>>)
  ELSE LET p == ParseMediaType(ct)
       IN  IF p.err THEN Error(InvalidArgument, "invalid content type", <<>>)
           ELSE IF p.mt # "application/json"
                THEN Error(InvalidArgument, "unsupported content type", <<>>)
           ELSE LET cs == ToLower(MapGet(p.mp, "charset"))
                IN  IF cs # "" /\ cs # "utf-8" /\ cs # "utf8"
                    THEN Error(InvalidArgument, "unsupported encoding", <<>>)
                    ELSE NoError


\* An Authorization header value: its words and the blanks between them;
\* <<>> when the header is absent.
Authorizations ==
  { <<>>,
    <<"Bearer", " ", "good">>,
    <<"Bearer", " ", "bad">>,
    <<"Bearer">>,
    <<"Basic", " ", "abc">>,
    <<"bearer", " ", "good">>,
    <<"Bearer", " ", "good", " ", "x">> }

\* strings.Fields(s)
Fields(s) == SelectSeq(s, LAMBDA t : t # " ")

\* *auth.Token, nil or with its UID.
NilToken == [nil |-> TRUE, UID |-> ""]
Token(uid) == [nil |-> FALSE, UID |-> uid]

\* c.authClient.VerifyIDTokenAndCheckRevoked(r.Context(), idToken): the
\* results the external verifier may give. It fails on a token it rejects,
\* and on any token when the request's context ends during the call.
VerifyOutcomes(idToken) ==
  (IF idToken = "good"
     THEN {[token |-> Token("alice"), err |-> NoError]}
     ELSE {[token |-> NilToken, err |-> Opaque("ID token has expired")]})
  \cup {[token |-> NilToken, err |-> ContextCanceled],
        [token |-> NilToken, err |-> ContextDeadlineExceeded]}

\* A mutant of validateTokenHeader: the token is not looked at.
validateTokenHeaderUnchecked(cfg, authorization) ==
  [step |-> "return", err |-> NoError, idToken |-> ""]

\* validateToken up to its call of the verifier: it returns (nil, err), or
\* goes on to verify parts[1].
validateTokenHeader(cfg, authorization) ==
  IF ~cfg.authClient THEN [step |-> "return", err |-> NoError, idToken |-> ""]
  ELSE LET parts == Fields(authorization)
       IN  IF Len(parts) = 0 /\ cfg.authRequired
           THEN [step |-> "return", err |-> Opaque("missing Authorization header"),
                 idToken |-> ""]
           ELSE IF Len(parts) # 2 \/ parts[1] # "Bearer"
           THEN [step |-> "return", err |-> Opaque("unsupported Authorization header"),
                 idToken |-> ""]
           ELSE [step |-> "verify", err |-> NoError, idToken |-> parts[2]]

\* A request body: the JSON text it holds, by shape.
\*   "malformed"  not JSON                     {"data":
\*   "nodata"     an object without data       {}
\*   "null"       data is null                 {"data":null}
\*   "string"     data is not an object        {"data":"x"}
\*   "object"     data is an object; its who field is absent, a string
\*                (who) or a number            {"data":{"who":"World"}}
Body(json, field, who) == [json |-> json, field |-> field, who |-> who]
NoBody == Body("none", "absent", "")

Names == {"", "World", "error"}

Bodies ==
  { Body("malformed", "absent", ""),
    Body("nodata", "absent", ""),
    Body("null", "absent", ""),
    Body("string", "absent", ""),
    Body("object", "absent", ""),
    Body("object", "number", "") }
  \cup { Body("object", "string", n) : n \in Names }

\* type testRequest struct { Who string `json:"who"` }
TestRequest(who) == [Who |-> who]

\* json.NewDecoder(r.Body).Decode(&payload), payload.Data holding the
\* pointer c.request: the error, and the object c.request points to after
\* the call. Only a who field of the body that is a string is stored; a
\* body without data, with a null data or without who leaves the object
\* as it was.
Decode(body, target) ==
  CASE body.json = "malformed" ->
         [err |-> Opaque("unexpected EOF"), target |-> target]
    [] body.json = "string" ->
         [err |-> Opaque("json: cannot unmarshal string into Go value of type callable.testRequest"),
          target |-> target]
    [] body.json = "object" /\ body.field = "number" ->
         [err |-> Opaque("json: cannot unmarshal number into Go struct field testRequest.who of type string"),
          target |-> target]
    [] body.json = "object" /\ body.field = "string" ->
         [err |-> NoError, target |-> TestRequest(body.who)]
    [] OTHER -> [err |-> NoError, target |-> target]

\* ------------------------------------------------------------------ handlers
\* What Handle returned: a result and a nil error, or an error. typed and
\* code tell whether the error was made by Error(code, ...).
Returned(result) == [err |-> NoError, result |-> result, typed |-> FALSE, code |-> Internal]
Failed(err) == [err |-> err, result |-> NilResult, typed |-> FALSE, code |-> Internal]
FailedWith(code, message) ==
  [err |-> Error(code, message, <<>>), result |-> NilResult, typed |-> TRUE, code |-> code]
NoOutcome == [err |-> NoError, result |-> NilResult, typed |-> FALSE, code |-> Internal]

\* func (r *testRequest) Handle(ctx context.Context, call Call) (interface{}, error)
testRequestHandle(r, call) ==
  IF r.Who = "" THEN FailedWith(NotFound, "nobody to greet")
  ELSE IF r.Who = "error" THEN Failed(Opaque("some error"))
  ELSE IF call.IID # "" THEN Returned(TestResponse("IID: " \o call.IID))
  ELSE Returned(TestResponse("Hello " \o r.Who \o "!"))

\* An error that is both context errors to errors.Is.
BothContextErrors ==
  [kind |-> "opaque", text |-> "canceled after deadline", canceled |-> TRUE, deadline |-> TRUE]

\* Request.Handle of an arbitrary implementation: any result, any error.
AnyHandle ==
  { Returned(TestResponse("ok")), Returned(NilResult), Returned(Unmarshalable) }
  \cup { FailedWith(code, message) : code \in AnyCodes, message \in {"", "denied"} }
  \cup { Failed(Opaque("some error")), Failed(ContextCanceled),
         Failed(ContextDeadlineExceeded), Failed(BothContextErrors),
         Failed(Wrap("lookup", Error(NotFound, "no such user", <<>>))) }

\* c.request.Handle(r.Context(), call), on the object c.request points to.
Handle(cfg, target, call) ==
  IF cfg.request = "testRequest" THEN {testRequestHandle(target, call)} ELSE AnyHandle


\* --------------------------------------------------------------------- state
VARIABLES
  c,        \* the Callable: request (the handler's type), authClient (set
            \* or nil), authRequired
  target,   \* the Request object c.request points to
  reqs      \* the requests in flight, by goroutine

vars == <<c, target, reqs>>

Slots == 1 .. MaxInFlight

Origins == {"", "http://localhost"}
RequestHeaders == {"", "content-type"}
InstanceIDs == {"", "42"}

\* An *http.Request: its method, the headers the package reads, its body.
Request(method, origin, acrh, authorization, ctype, iid, body) ==
  [method |-> method, origin |-> origin, acrh |-> acrh,
   authorization |-> authorization, ctype |-> ctype, iid |-> iid, body |-> body]

NoRequest == Request("", "", "", <<>>, NoContentType, "", NoBody)

PostRequests ==
  { Request("POST", o, "", a, ct, iid, b) :
      o \in Origins, a \in Authorizations, ct \in ContentTypes,
      iid \in InstanceIDs, b \in Bodies }

OptionsRequests ==
  { Request("OPTIONS", o, h, a, ct, "", NoBody) :
      o \in Origins, h \in RequestHeaders,
      a \in {<<>>, <<"Bearer", " ", "bad">>},
      ct \in {NoContentType, CT("text/plain", <<>>)} }

OtherRequests ==
  { Request(m, o, "", <<>>, NoContentType, "", NoBody) :
      m \in {"GET", "PUT"}, o \in Origins }

Requests == PostRequests \cup OptionsRequests \cup OtherRequests

\* The requests served at the same time: fewer than Requests, the POSTs
\* among them with a Content-Type that is accepted.
ConcurrentRequests ==
  { Request("POST", "", "", a, CT("application/json", <<>>), "", b) :
      a \in {<<>>, <<"Bearer", " ", "good">>}, b \in Bodies }
  \cup { Request("OPTIONS", "http://localhost", "", <<>>, NoContentType, "", NoBody),
         Request("GET", "", "", <<>>, NoContentType, "", NoBody) }

\* A goroutine serving no request.
Idle ==
  [pc |-> "idle", r |-> NoRequest, w |-> NewWriter, idToken |-> "",
   token |-> NilToken, verifyErr |-> NoError, err |-> NoError, steps |-> <<>>,
   decoded |-> TestRequest(""), handled |-> <<>>,
   outcome |-> NoOutcome, logs |-> <<>>]

\* New(request, opts...): the Callables the options give.
Callables ==
  { [request |-> t, authClient |-> FALSE, authRequired |-> FALSE] :
      t \in {"testRequest", "any"} }
  \cup { [request |-> t, authClient |-> TRUE, authRequired |-> req] :
           t \in {"testRequest", "any"}, req \in BOOLEAN }

\* callable.New(&testRequest{}, opts...)
Init ==
  /\ c \in Callables
  /\ target = TestRequest("")
  /\ reqs = [i \in Slots |-> Idle]

\* ------------------------------------------------------------------- actions
\* ServeHTTP's POST branch when handlePost returned err: the error is
\* classified and written.
ServeError(g, err) ==
  [g EXCEPT !.err = err, !.w = callErrorWrite(classify(err), g.w), !.pc = "returned"]

\* The HTTP server calls ServeHTTP(w, r) while no other request is served.
Receive(i) ==
  /\ \A j \in Slots : reqs[j].pc = "idle"
  /\ \E r \in Requests :
       reqs' = [reqs EXCEPT ![i] = [Idle EXCEPT !.pc = "serve", !.r = r]]
  /\ UNCHANGED <<c, target>>

\* The HTTP server calls ServeHTTP(w, r) on its own goroutine, whatever the
\* other goroutines are doing.
ReceiveConcurrent(i) ==
  /\ reqs[i].pc = "idle"
  /\ \E r \in ConcurrentRequests :
       reqs' = [reqs EXCEPT ![i] = [Idle EXCEPT !.pc = "serve", !.r = r]]
  /\ UNCHANGED <<c, target>>

\* A mutant of handleCorsPreflight: the allowed headers are always sent.
handleCorsPreflightAlways(w, r) ==
  LET w1 == HeaderAdd(w, "Vary", "Origin")
      w2 == HeaderAdd(w1, "Vary", "Access-Control-Request-Headers")
      w3 == HeaderAdd(w2, "Access-Control-Allow-Methods", "POST")
      w4 == HeaderAdd(w3, "Access-Control-Allow-Headers", "*")
      w5 == IF r.origin # ""
              THEN HeaderAdd(w4, "Access-Control-Allow-Origin", r.origin) ELSE w4
  IN  WriteHeader(w5, 204)

\* func (c *Callable) handleCorsPreflight(w http.ResponseWriter, r *http.Request)
handleCorsPreflight(w, r) ==
  LET w1 == HeaderAdd(w, "Vary", "Origin")
      w2 == HeaderAdd(w1, "Vary", "Access-Control-Request-Headers")
      w3 == HeaderAdd(w2, "Access-Control-Allow-Methods", "POST")
      w4 == IF r.acrh # ""
              THEN HeaderAdd(w3, "Access-Control-Allow-Headers", "*") ELSE w3
      w5 == IF r.origin # ""
              THEN HeaderAdd(w4, "Access-Control-Allow-Origin", r.origin) ELSE w4
  IN  WriteHeader(w5, 204)

\* ServeHTTP, case http.MethodOptions.
Preflight(i) ==
  /\ reqs[i].pc = "serve"
  /\ reqs[i].r.method = "OPTIONS"
  /\ reqs' = [reqs EXCEPT ![i].w = handleCorsPreflight(@, reqs[i].r),
                          ![i].steps = Append(@, "preflight"),
                          ![i].pc = "returned"]
  /\ UNCHANGED <<c, target>>

\* A mutant of http.Error: the status is left to the first Write.
httpErrorNoStatus(w, error, code) ==
  LET w1 == HeaderSet(w, "Content-Type", "text/plain; charset=utf-8")
      w2 == HeaderSet(w1, "X-Content-Type-Options", "nosniff")
  IN  Write(w2, [line |-> error])

\* http.Error(w, error, code): a text/plain body, the error and a newline.
httpError(w, error, code) ==
  LET w1 == HeaderSet(w, "Content-Type", "text/plain; charset=utf-8")
      w2 == HeaderSet(w1, "X-Content-Type-Options", "nosniff")
      w3 == WriteHeader(w2, code)
  IN  Write(w3, [line |-> error])

\* ServeHTTP, default case.
MethodNotAllowed(i) ==
  /\ reqs[i].pc = "serve"
  /\ reqs[i].r.method \notin {"OPTIONS", "POST"}
  /\ reqs' = [reqs EXCEPT ![i].w = httpError(@, "", 405),
                          ![i].pc = "returned"]
  /\ UNCHANGED <<c, target>>

\* handlePost from its start to validateToken's call of the verifier, or to
\* validateToken's return without one.
PostValidateToken(i) ==
  LET g == [reqs[i] EXCEPT !.steps = Append(@, "validateToken")]
      v == validateTokenHeader(c, g.r.authorization)
  IN  /\ reqs[i].pc = "serve"
      /\ reqs[i].r.method = "POST"
      /\ reqs' = [reqs EXCEPT ![i] =
           IF v.step = "verify"
             THEN [g EXCEPT !.pc = "verifying", !.idToken = v.idToken]
           ELSE IF v.err # NoError
             THEN ServeError(g, Error(Unauthenticated, "invalid ID token: %v",
                                      <<ErrorString(v.err)>>))
           ELSE [g EXCEPT !.pc = "negotiate"]]
      /\ UNCHANGED <<c, target>>

\* VerifyIDTokenAndCheckRevoked returns, then validateToken.
PostVerified(i) ==
  LET g == [reqs[i] EXCEPT !.steps = Append(@, "verify")]
  IN  /\ reqs[i].pc = "verifying"
      /\ \E o \in VerifyOutcomes(g.idToken) :
           reqs' = [reqs EXCEPT ![i] =
             IF o.err # NoError
               THEN ServeError([g EXCEPT !.verifyErr = o.err],
                               Error(Unauthenticated, "invalid ID token: %v",
                                     <<ErrorString(o.err)>>))
               ELSE [g EXCEPT !.pc = "negotiate", !.token = o.token]]
      /\ UNCHANGED <<c, target>>


\* A mutant of corsHeaders: Vary is added although a Vary header is there.
corsHeadersTwice(w, r) ==
  LET w1 == HeaderAdd(HeaderAdd(w, "Vary", "Origin"), "Vary", "Origin")
  IN  IF r.origin # "" THEN HeaderAdd(w1, "Access-Control-Allow-Origin", r.origin) ELSE w1

\* handlePost, "send CORS headers".
corsHeaders(w, r) ==
  LET w1 == HeaderAdd(w, "Vary", "Origin")
  IN  IF r.origin # "" THEN HeaderAdd(w1, "Access-Control-Allow-Origin", r.origin) ELSE w1

\* handlePost from the Content-Type checks to the decoding of the body into
\* the object c.request points to.
PostDecode(i) ==
  LET g  == [reqs[i] EXCEPT !.steps = Append(@, "negotiate")]
      e  == checkContentType(g.r.ctype)
      g1 == [g EXCEPT !.w = corsHeaders(@, g.r), !.steps = @ \o <<"cors", "decode">>]
      d  == Decode(g.r.body, target)
  IN  /\ reqs[i].pc = "negotiate"
      /\ IF e # NoError
           THEN /\ reqs' = [reqs EXCEPT ![i] = ServeError(g, e)]
                /\ target' = target
           ELSE /\ reqs' = [reqs EXCEPT ![i] =
                     IF d.err # NoError
                       THEN ServeError(g1, Error(InvalidArgument,
                                                 "failed to decode payload: %v",
                                                 <<ErrorString(d.err)>>))
                       ELSE [g1 EXCEPT !.pc = "handle", !.decoded = d.target]]
                /\ target' = d.target
      /\ c' = c

\* logger.Error(err, msg, ...): the event the logging capability receives,
\* with the text err.Error() gives.
LogEvent(err, msg) == [msg |-> msg, err |-> ErrorString(err)]

\* handlePost after Handle returned a result: the Content-Type header, then
\* json.NewEncoder(w).Encode(dataResponse{result}), which writes nothing
\* when the result cannot be marshalled.
writeData(g, result) ==
  LET w1 == HeaderAdd(g.w, "Content-Type", "application/json; charset=utf-8")
      m  == MarshalData(result)
  IN  IF m.ok
        THEN [g EXCEPT !.w = Write(w1, m.json), !.steps = Append(@, "encode")]
        ELSE [g EXCEPT !.w = w1, !.steps = Append(@, "encode"),
                       !.logs = Append(@, LogEvent(Opaque("json: unsupported type: chan int"),
                                                   "failed to write response"))]

\* A mutant of NewCall: the token's UID is not copied.
NewCallWithoutUID(g) == [IID |-> g.r.iid, UID |-> ""]

\* type Call struct { UID, IID string }, as handlePost builds it.
NewCall(g) ==
  [IID |-> g.r.iid, UID |-> IF g.token.nil THEN "" ELSE g.token.UID]

\* handlePost from the call of c.request.Handle to its return, and ServeHTTP
\* after it.
PostHandle(i) ==
  LET call == NewCall(reqs[i])
      g == [reqs[i] EXCEPT !.steps = Append(@, "handle"),
                           !.handled = Append(@, [input |-> target, call |-> call])]
  IN  /\ reqs[i].pc = "handle"
      /\ \E o \in Handle(c, target, call) :
           reqs' = [reqs EXCEPT ![i] =
             IF o.err # NoError
               THEN ServeError([g EXCEPT !.outcome = o,
                                         !.logs = Append(@, LogEvent(o.err,
                                                     "callable returned error"))],
                               o.err)
               ELSE [writeData(g, o.result) EXCEPT !.outcome = o, !.pc = "returned"]]
      /\ UNCHANGED <<c, target>>

\* ServeHTTP has returned: the server sends the response and the goroutine
\* ends.
Complete(i) ==
  /\ reqs[i].pc = "returned"
  /\ reqs' = [reqs EXCEPT ![i] = Idle]
  /\ UNCHANGED <<c, target>>

\* func (c *Callable) ServeHTTP(w http.ResponseWriter, r *http.Request)
ServeHTTP(i) ==
  \/ Preflight(i)
  \/ MethodNotAllowed(i)
  \/ PostValidateToken(i)
  \/ PostVerified(i)
  \/ PostDecode(i)
  \/ PostHandle(i)

Next ==
  \E i \in Slots :
    \/ Receive(i)
    \/ ServeHTTP(i)
    \/ Complete(i)

\* Requests served one at a time.
Spec == Init /\ [][Next]_vars

NextConcurrent ==
  \E i \in Slots :
    \/ ReceiveConcurrent(i)
    \/ ServeHTTP(i)
    \/ Complete(i)

\* callable.New(&testRequest{}, opts...), the handler of the tests.
InitConcurrent ==
  /\ Init
  /\ c.request = "testRequest"

\* Requests served at the same time, as net/http serves them.
SpecConcurrent == InitConcurrent /\ [][NextConcurrent]_vars


\* -------------------------------------------------------------------- claims
\* The goroutines whose ServeHTTP has returned, and those among them that
\* served a POST.
Returned_(i) == reqs[i].pc = "returned"
ReturnedPost(i) == reqs[i].pc = "returned" /\ reqs[i].r.method = "POST"

\* The status table of the specification, as (status string, HTTP code) by
\* StatusCode value 0..15.
StatusTable ==
  << <<"INVALID_ARGUMENT", 400>>, <<"FAILED_PRECONDITION", 400>>,
     <<"OUT_OF_RANGE", 400>>, <<"UNAUTHENTICATED", 401>>,
     <<"PERMISSION_DENIED", 403>>, <<"NOT_FOUND", 404>>, <<"ABORTED", 409>>,
     <<"ALREADY_EXISTS", 409>>, <<"RESOURCE_EXHAUSTED", 429>>,
     <<"CANCELLED", 499>>, <<"DATA_LOSS", 500>>, <<"UNKNOWN", 500>>,
     <<"INTERNAL", 500>>, <<"NOT_IMPLEMENTED", 501>>, <<"UNAVAILABLE", 503>>,
     <<"DEADLINE_EXCEEDED", 504>> >>

\* The response is one error envelope {"error": {"status", "message"}}
\* under one status write, the status and its string a row of the table
\* and no 2xx.
IsErrorResponse(w) ==
  /\ Len(w.status) = 1
  /\ Len(w.body) = 1
  /\ DOMAIN w.body[1] = {"error"}
  /\ DOMAIN w.body[1].error = {"status", "message"}
  /\ \E k \in 1 .. Len(StatusTable) :
       StatusTable[k] = <<w.body[1].error.status, w.status[1]>>
  /\ ~(w.status[1] \in 200 .. 299)

\* The response is one data envelope {"data": ...} under one status write
\* of 200.
IsDataResponse(w) ==
  /\ w.status = <<200>>
  /\ Len(w.body) = 1
  /\ DOMAIN w.body[1] = {"data"}

\* The goroutine went through auth, negotiation and decoding, and its
\* handler returned a result.
AllSucceeded(g) ==
  /\ g.steps \in { <<"validateToken", "negotiate", "cors", "decode", "handle", "encode">>,
                   <<"validateToken", "verify", "negotiate", "cors", "decode", "handle",
                     "encode">> }
  /\ Len(g.handled) = 1
  /\ g.outcome.err = NoError

\* C1, as claimed: every POST is answered by exactly one response, a 200
\* with a data envelope (only when auth, negotiation, decoding and the
\* handler all succeeded) or one error envelope with a non-2xx status of
\* the table.
C1_EveryPostOneEnvelope ==
  \A i \in Slots :
    ReturnedPost(i) =>
      LET g == reqs[i]
      IN  IF AllSucceeded(g) THEN IsDataResponse(g.w) ELSE IsErrorResponse(g.w)

\* C1, amended: as claimed, except that a result encoding/json cannot
\* marshal is answered by no write at all (the client receives a 200 with an
\* empty body and no envelope). Every failure of auth, negotiation, decoding
\* or the handler is answered by exactly one error envelope, non-2xx.
C1_OneResponse ==
  \A i \in Slots :
    ReturnedPost(i) =>
      LET g == reqs[i]
      IN  IF ~AllSucceeded(g) THEN IsErrorResponse(g.w)
          ELSE IF g.outcome.result.type # "chan" THEN IsDataResponse(g.w)
          ELSE g.w.status = <<>> /\ g.w.body = <<>>

\* C1 witness: a handler failure answered by an error envelope.
C1_Witness ==
  \E i \in Slots :
    /\ ReturnedPost(i)
    /\ reqs[i].outcome.err # NoError
    /\ IsErrorResponse(reqs[i].w)
    /\ reqs[i].w.status = <<403>>

\* C2: a handler failure is answered as follows. A callError (also one
\* wrapped in another error) with its own status string, HTTP code and
\* message; an opaque error that is context.Canceled with CANCELLED/499;
\* one that is context.DeadlineExceeded (and not also Canceled, which is
\* looked for first) with DEADLINE_EXCEEDED/504; any other with
\* INTERNAL/500; the three opaque cases with the error's text as message.
C2_HandlerFailureClassified ==
  \A i \in Slots :
    (ReturnedPost(i) /\ reqs[i].handled # <<>> /\ reqs[i].outcome.err # NoError) =>
      LET e == reqs[i].outcome.err
          w == reqs[i].w
          answer == <<w.status, w.body>>
          Envelope(code, status, message) ==
            << <<code>>, <<[error |-> [status |-> status, message |-> message]]>> >>
      IN  CASE e.kind = "callError" -> answer = Envelope(e.code, e.status, e.message)
            [] e.kind = "wrapped" ->
                 answer = Envelope(e.inner.code, e.inner.status, e.inner.message)
            [] e.kind = "opaque" /\ e.canceled ->
                 answer = Envelope(499, "CANCELLED", e.text)
            [] e.kind = "opaque" /\ e.deadline /\ ~e.canceled ->
                 answer = Envelope(504, "DEADLINE_EXCEEDED", e.text)
            [] OTHER -> answer = Envelope(500, "INTERNAL", e.text)

\* C2 witness: the handler returned context.Canceled and the answer is 499.
C2_Witness ==
  \E i \in Slots :
    /\ ReturnedPost(i)
    /\ reqs[i].outcome.err = ContextCanceled
    /\ reqs[i].w.status = <<499>>

\* C3: an error built by Error(code, ...) carries the status string and the
\* HTTP code of the table for each of the 16 StatusCode values, and
\* INTERNAL/500 for a value outside the enumeration.
C3_ErrorCarriesTableRow ==
  \A i \in Slots :
    reqs[i].outcome.typed =>
      LET k == reqs[i].outcome.code
          e == reqs[i].outcome.err
          row == IF k \in 0 .. 15 THEN StatusTable[k + 1] ELSE <<"INTERNAL", 500>>
      IN  e.kind = "callError" /\ <<e.status, e.code>> = row

\* C3 witness: Error(-1, ...) was built and is INTERNAL/500.
C3_Witness ==
  \E i \in Slots :
    /\ reqs[i].outcome.typed
    /\ reqs[i].outcome.code = -1
    /\ reqs[i].outcome.err.status = "INTERNAL"


\* The parameter names of a Content-Type, lower-cased.
ParamNames(ct) == { ToLower(ct.params[k].name) : k \in 1 .. Len(ct.params) }

\* The rule of the specification's content negotiation that rejects ct, as
\* the message of the rejection; "" when none does.
NegotiationRule(ct) ==
  IF ct = NoContentType THEN "missing content type"
  ELSE IF ParseMediaType(ct).err THEN "invalid content type"
  ELSE IF ToLower(ct.type) # "application/json" THEN "unsupported content type"
  ELSE IF /\ "charset" \in ParamNames(ct)
          /\ \E k \in 1 .. Len(ct.params) :
               /\ ToLower(ct.params[k].name) = "charset"
               /\ ToLower(ct.params[k].value) \notin {"utf-8", "utf8"}
       THEN "unsupported encoding"
  ELSE ""

\* The response is 400 INVALID_ARGUMENT with this message.
IsInvalidArgument(w, message) ==
  /\ w.status = <<400>>
  /\ w.body = <<[error |-> [status |-> "INVALID_ARGUMENT", message |-> message]]>>

\* C4, as claimed: a POST that passed identity verification is rejected by
\* the first rule that matches its Content-Type (missing, unparseable, not
\* application/json, a charset parameter present that is neither utf-8 nor
\* utf8) and passes negotiation otherwise; a rejected request is neither
\* decoded nor handled.
C4_NegotiationRules ==
  \A i \in Slots :
    (ReturnedPost(i) /\ \E k \in 1 .. Len(reqs[i].steps) : reqs[i].steps[k] = "negotiate") =>
      LET g == reqs[i]
          rule == NegotiationRule(g.r.ctype)
          decoded == \E k \in 1 .. Len(g.steps) : g.steps[k] = "decode"
      IN  IF rule # ""
            THEN IsInvalidArgument(g.w, rule) /\ ~decoded /\ g.handled = <<>>
            ELSE decoded

\* C5, as claimed: every POST response carries Vary: Origin, and
\* Access-Control-Allow-Origin echoing the Origin header iff one was sent,
\* unless identity verification failed.
C5_CorsOnEveryPostResponse ==
  \A i \in Slots :
    (ReturnedPost(i) /\ \E k \in 1 .. Len(reqs[i].steps) : reqs[i].steps[k] = "negotiate") =>
      LET g == reqs[i]
      IN  /\ g.w.header["Vary"] = <<"Origin">>
          /\ g.w.header["Access-Control-Allow-Origin"] =
               (IF g.r.origin # "" THEN <<g.r.origin>> ELSE <<>>)


\* The headers of the answer to a POST whose handler returned a result.
HasSuccessHeaders(g) ==
  /\ StatusOf(g.w) = 200
  /\ g.w.header["Content-Type"] = <<"application/json; charset=utf-8">>
  /\ g.w.header["Vary"] = <<"Origin">>
  /\ g.w.header["Access-Control-Allow-Origin"] =
       (IF g.r.origin # "" THEN <<g.r.origin>> ELSE <<>>)

\* The body is {"data": r}, for the results r of the model that have a
\* JSON form: a testResponse is {"greeting": ...}, nil is null.
IsDataBody(body, r) ==
  /\ Len(body) = 1
  /\ DOMAIN body[1] = {"data"}
  /\ r.type = "testResponse" => body[1].data = [greeting |-> r.Greeting]
  /\ r.type = "nil" => body[1].data = JSONNull

\* C6, as claimed: a POST whose handler returned a result r is answered
\* with status 200, Content-Type "application/json; charset=utf-8", Vary
\* exactly ["Origin"], Access-Control-Allow-Origin the request's Origin iff
\* it had one, and the body {"data": r}.
C6_SuccessAnswer ==
  \A i \in Slots :
    (ReturnedPost(i) /\ reqs[i].handled # <<>> /\ reqs[i].outcome.err = NoError) =>
      /\ HasSuccessHeaders(reqs[i])
      /\ IsDataBody(reqs[i].w.body, reqs[i].outcome.result)

\* C6, amended: as claimed when encoding/json can marshal r; when it cannot,
\* the status and the headers are as claimed and the body is empty.
C6_SuccessAnswerWhenMarshalled ==
  \A i \in Slots :
    (ReturnedPost(i) /\ reqs[i].handled # <<>> /\ reqs[i].outcome.err = NoError) =>
      /\ HasSuccessHeaders(reqs[i])
      /\ IF reqs[i].outcome.result.type # "chan"
           THEN IsDataBody(reqs[i].w.body, reqs[i].outcome.result)
           ELSE reqs[i].w.body = <<>>

\* C6 witness: a testResponse answered to a request with an Origin.
C6_Witness ==
  \E i \in Slots :
    /\ ReturnedPost(i)
    /\ reqs[i].outcome.result = TestResponse("Hello World!")
    /\ reqs[i].r.origin = "http://localhost"
    /\ reqs[i].w.body = <<[data |-> [greeting |-> "Hello World!"]]>>

\* C7: an OPTIONS request is answered 204 with an empty body, Vary holding
\* Origin and Access-Control-Request-Headers, Access-Control-Allow-Methods
\* POST, Access-Control-Allow-Headers * iff the request had a non-empty
\* Access-Control-Request-Headers, Access-Control-Allow-Origin the Origin
\* iff the request had one; neither the verifier nor the handler is called.
C7_Preflight ==
  \A i \in Slots :
    (Returned_(i) /\ reqs[i].r.method = "OPTIONS") =>
      LET g == reqs[i]
          vary == { g.w.header["Vary"][k] : k \in 1 .. Len(g.w.header["Vary"]) }
      IN  /\ g.w.status = <<204>>
          /\ g.w.body = <<>>
          /\ {"Origin", "Access-Control-Request-Headers"} \subseteq vary
          /\ g.w.header["Access-Control-Allow-Methods"] = <<"POST">>
          /\ g.w.header["Access-Control-Allow-Headers"] =
               (IF g.r.acrh # "" THEN <<"*">> ELSE <<>>)
          /\ g.w.header["Access-Control-Allow-Origin"] =
               (IF g.r.origin # "" THEN <<g.r.origin>> ELSE <<>>)
          /\ g.steps = <<"preflight">>
          /\ g.handled = <<>>

\* C7 witness: a preflight without Access-Control-Request-Headers, with an
\* Origin and a token the verifier would reject, on a Callable that requires
\* auth.
C7_Witness ==
  \E i \in Slots :
    /\ Returned_(i)
    /\ reqs[i].r.method = "OPTIONS"
    /\ reqs[i].r.acrh = ""
    /\ reqs[i].r.origin = "http://localhost"
    /\ reqs[i].r.authorization = <<"Bearer", " ", "bad">>
    /\ c.authClient /\ c.authRequired
    /\ reqs[i].w.status = <<204>>

\* The response is 401 UNAUTHENTICATED with this message.
IsUnauthenticated(w, message) ==
  /\ w.status = <<401>>
  /\ w.body = <<[error |-> [status |-> "UNAUTHENTICATED", message |-> message]]>>

\* C8, as claimed: with a verifier configured, a POST without Authorization
\* header when one is required is answered 401 UNAUTHENTICATED "missing
\* Authorization header", one whose header is not "Bearer <token>" 401
\* "unsupported Authorization header", one whose token the verifier rejects
\* 401 "invalid ID token: <underlying message>"; the handler is not called.
C8_AuthFailureMessages ==
  \A i \in Slots :
    (ReturnedPost(i) /\ c.authClient) =>
      LET g == reqs[i]
          parts == Fields(g.r.authorization)
      IN  /\ (parts = <<>> /\ c.authRequired) =>
                IsUnauthenticated(g.w, "missing Authorization header") /\ g.handled = <<>>
          /\ (parts # <<>> /\ (Len(parts) # 2 \/ parts[1] # "Bearer")) =>
                IsUnauthenticated(g.w, "unsupported Authorization header") /\ g.handled = <<>>
          /\ (Len(parts) = 2 /\ parts[1] = "Bearer" /\ parts[2] = "bad") =>
                /\ \E text \in {"ID token has expired", "context canceled",
                                "context deadline exceeded"} :
                     IsUnauthenticated(g.w, "invalid ID token: " \o text)
                /\ g.handled = <<>>

\* C9, as claimed: with a verifier configured and not required, a POST
\* without Authorization header is not rejected as unauthenticated: the
\* verifier is not called, negotiation follows, and the handler, if reached,
\* is called with an empty UID.
C9_OptionalAuth ==
  \A i \in Slots :
    (ReturnedPost(i) /\ c.authClient /\ ~c.authRequired
       /\ Fields(reqs[i].r.authorization) = <<>>) =>
      LET g == reqs[i]
          did == { g.steps[k] : k \in 1 .. Len(g.steps) }
      IN  /\ StatusOf(g.w) # 401
          /\ "verify" \notin did
          /\ "negotiate" \in did
          /\ \A k \in 1 .. Len(g.handled) : g.handled[k].call.UID = ""

\* C10, as claimed: each handler invocation observes the input decoded from
\* the body of its own request, whatever the other requests in flight do.
C10_HandlerSeesOwnInput ==
  \A i \in Slots :
    \A k \in 1 .. Len(reqs[i].handled) :
      reqs[i].handled[k].input = reqs[i].decoded


\* The steps a goroutine went through, as a set.
StepsOf(g) == { g.steps[k] : k \in 1 .. Len(g.steps) }

\* C11, as claimed: a POST with an accepted Content-Type whose body is not
\* a JSON object with a data field that fits the handler's input (malformed
\* JSON, a data or a field of the wrong type, an object without data such as
\* {}) is answered 400 INVALID_ARGUMENT with a message, and the handler is
\* not called.
C11_BadBodyRejected ==
  \A i \in Slots :
    (/\ ReturnedPost(i)
     /\ "decode" \in StepsOf(reqs[i])
     /\ \/ reqs[i].r.body.json \in {"malformed", "string", "nodata"}
        \/ reqs[i].r.body.field = "number") =>
      LET w == reqs[i].w
      IN  /\ w.status = <<400>>
          /\ Len(w.body) = 1
          /\ DOMAIN w.body[1] = {"error"}
          /\ w.body[1].error.status = "INVALID_ARGUMENT"
          /\ w.body[1].error.message # ""
          /\ reqs[i].handled = <<>>


\* C12, as claimed: the answer to a POST whose handler returned an error,
\* typed or opaque, carries Content-Type "application/json; charset=utf-8",
\* with the mapped status and the error envelope.
C12_ErrorContentType ==
  \A i \in Slots :
    (ReturnedPost(i) /\ reqs[i].handled # <<>> /\ reqs[i].outcome.err # NoError) =>
      /\ IsErrorResponse(reqs[i].w)
      /\ reqs[i].w.header["Content-Type"] = <<"application/json; charset=utf-8">>

C14_CallOfOwnRequest ==
  \A i \in Slots :
    \A k \in 1 .. Len(reqs[i].handled) :
      LET g == reqs[i]
          call == g.handled[k].call
      IN  /\ call.IID = g.r.iid
          /\ call.UID =
               (IF c.authClient /\ "verify" \in StepsOf(g)
                     /\ g.r.authorization = <<"Bearer", " ", "good">>
                  THEN "alice" ELSE "")

\* C14 witness: a handler was called with a verified UID and an IID.
C14_Witness ==
  \E i \in Slots :
    /\ reqs[i].handled # <<>>
    /\ reqs[i].r.iid = "42"
    /\ reqs[i].handled[1].call = [IID |-> "42", UID |-> "alice"]


\* C15, as claimed: a request whose context is cancelled, or whose deadline
\* expires, during the verification of its token or during its handler is
\* answered CANCELLED (499), respectively DEADLINE_EXCEEDED (504).
C15_CancellationAnswered ==
  \A i \in Slots :
    ReturnedPost(i) =>
      LET g == reqs[i]
          Answered(code, status) ==
            /\ g.w.status = <<code>>
            /\ Len(g.w.body) = 1
            /\ DOMAIN g.w.body[1] = {"error"}
            /\ g.w.body[1].error.status = status
      IN  /\ g.verifyErr = ContextCanceled => Answered(499, "CANCELLED")
          /\ g.verifyErr = ContextDeadlineExceeded => Answered(504, "DEADLINE_EXCEEDED")
          /\ g.outcome.err = ContextCanceled => Answered(499, "CANCELLED")
          /\ g.outcome.err = ContextDeadlineExceeded => Answered(504, "DEADLINE_EXCEEDED")


\* C16: Error() of a callable error is its status string when its message
\* is empty, and the status, one blank and the message otherwise. Seen where
\* the package has a typed handler error rendered: the event it logs.
C16_ErrorString ==
  \A i \in Slots :
    (reqs[i].logs # <<>> /\ reqs[i].outcome.err.kind = "callError") =>
      LET e == reqs[i].outcome.err
      IN  reqs[i].logs[1].err =
            (IF e.message = "" THEN e.status ELSE e.status \o " " \o e.message)

\* C16 witness: a callable error with an empty message was rendered.
C16_Witness ==
  \E i \in Slots :
    /\ reqs[i].logs # <<>>
    /\ reqs[i].outcome.err.kind = "callError"
    /\ reqs[i].outcome.err.message = ""
    /\ reqs[i].logs[1].err = "NOT_FOUND"


\* C17, as claimed: the input a handler observes depends only on the body
\* of its request: the who field of the body when it has one, the zero
\* value "" otherwise, whatever the requests served before left in the
\* Request object.
C17_InputFromOwnBodyOnly ==
  \A i \in Slots :
    \A k \in 1 .. Len(reqs[i].handled) :
      LET b == reqs[i].r.body
      IN  reqs[i].handled[k].input.Who =
            (IF b.json = "object" /\ b.field = "string" THEN b.who ELSE "")


\* The steps of a POST in their order, without and with a call of the
\* verifier.
PostSteps ==
  { <<"validateToken", "negotiate", "cors", "decode", "handle", "encode">>,
    <<"validateToken", "verify", "negotiate", "cors", "decode", "handle", "encode">> }

\* Requests that fail a step whatever the reading of the rules: a token the
\* verifier rejects or a malformed Authorization header; a Content-Type
\* that is missing, unparseable, not JSON or of another charset; a body
\* that is not JSON or of the wrong type.
FailsAuth(g) ==
  /\ c.authClient
  /\ g.r.authorization # <<>>
  /\ g.r.authorization # <<"Bearer", " ", "good">>
FailsNegotiation(g) ==
  g.r.ctype \in { NoContentType, CT("text/plain", <<>>), CT("application/", <<>>),
                  CT("application/json", <<BadParam("charset")>>),
                  CT("application/json", <<Param("charset", "iso-8859-1")>>) }
FailsDecoding(g) ==
  g.r.body.json \in {"malformed", "string"} \/ g.r.body.field = "number"

\* C18: the steps of a POST run in the order identity verification, content
\* negotiation, decoding, handler, each at most once; a step that fails
\* ends the request (a bad token with a bad Content-Type is answered 401,
\* not 400), and the handler is called only after the three other steps
\* succeeded.
C18_StepOrder ==
  \A i \in Slots :
    reqs[i].r.method = "POST" =>
      LET g == reqs[i]
          did == StepsOf(g)
      IN  /\ \E full \in PostSteps : \E n \in 0 .. Len(full) : g.steps = SubSeq(full, 1, n)
          /\ "verify" \in did => c.authClient
          /\ FailsAuth(g) => did \subseteq {"validateToken", "verify"}
          /\ FailsNegotiation(g) => did \cap {"decode", "handle", "encode"} = {}
          /\ FailsDecoding(g) => did \cap {"handle", "encode"} = {}
          /\ "handle" \in did =>
               /\ ~FailsAuth(g) /\ ~FailsNegotiation(g) /\ ~FailsDecoding(g)
               /\ g.verifyErr = NoError
               /\ c.authClient => g.token = Token("alice")
          /\ (g.pc = "returned" /\ FailsAuth(g)) => g.w.status = <<401>>

\* C18 witness: a token the verifier rejected on a request without
\* Content-Type, answered 401 after the verifier and nothing else ran.
C18_Witness ==
  \E i \in Slots :
    /\ ReturnedPost(i)
    /\ c.authClient
    /\ reqs[i].r.authorization = <<"Bearer", " ", "bad">>
    /\ reqs[i].r.ctype = NoContentType
    /\ reqs[i].steps = <<"validateToken", "verify">>
    /\ reqs[i].w.status = <<401>>


\* C19, as claimed: a log event is emitted only for a handler failure that
\* is opaque; a typed handler failure and the failures of auth, negotiation
\* and decoding emit none.
C19_OnlyOpaqueFailuresLogged ==
  \A i \in Slots :
    reqs[i].logs # <<>> =>
      /\ reqs[i].handled # <<>>
      /\ reqs[i].outcome.err.kind = "opaque"

====
